---------------------------- MODULE Spec2Model ----------------------------
(***************************************************************************)
(* ESI processing (crate esi, src/esi/src/lib.rs): one call of             *)
(* transform_esi_string, as the state machine                              *)
(*     parse_tag_entries -> execute_tag_entries -> output assembly.        *)
(*                                                                         *)
(* The body is a stream of quick_xml reader results (Ok(Event) or Err),    *)
(* revealed one read_event call at a time; after the end of the stream     *)
(* read_event returns Eof again.  The writer puts an event back as the     *)
(* bytes the reader made it from, so documents are compared event for      *)
(* event.  The fetch client is an arbitrary ExecutionContext: each         *)
(* send_request call succeeds or fails.  Byte strings are sequences of     *)
(* tokens, so that starts_with is a real prefix test.                      *)
(*                                                                         *)
(* Crate esi_fastly (src/esi_fastly/src/lib.rs) supplies the               *)
(* ExecutionContext used in production, FastlyRequestHandler; one call of  *)
(* its send_request is modelled on its own (SpecFastly).                   *)
(***************************************************************************)
EXTENDS Naturals, Sequences, FiniteSets

VARIABLES
    body,       \* reader results of the input stream revealed so far
    closed,     \* TRUE once the end of the stream is known
    pos,        \* number of reader results consumed by read_event
    remove,     \* parse_tag_entries: `remove` flag
    events,     \* parse_tag_entries: Vec<TagEntry>
    index,      \* loop index of execute_tag_entries / of the output loop
    map,        \* execute_tag_entries: HashMap<usize, Vec<u8>>
    calls,      \* log of ExecutionContext::send_request calls
    out,        \* quick_xml Writer buffer, as the sequence of events written
    pc,         \* where transform_esi_string is, or where it ended:
                \* "parse" | "execute" | "assemble" ("attrs": parse_attributes alone)
    result,     \* what transform_esi_string returned; "Running" until it ends
    round,      \* how many times transform was re-applied to its own output
    input0,     \* body of the first application (history)
    tagBytes,   \* argument of a direct parse_attributes call
    attrResult, \* its result
    fastly      \* one FastlyRequestHandler::send_request call: what the
                \* backend does with the request, and what the call returns

vars == <<body, closed, pos, remove, events, index, map, calls, out, pc,
          result, round, input0, tagBytes, attrResult, fastly>>

-----------------------------------------------------------------------------
(* Bounds *)

MaxDoc == 3
MaxParseDoc == 4
MaxRounds == 2
MaxAttrs == 3

-----------------------------------------------------------------------------
(* Option<T> *)

None == << >>
Some(x) == << x >>
IsSome(o) == Len(o) = 1
Unwrap(o) == o[1]

(* slice::starts_with *)
StartsWith(s, p) == Len(s) >= Len(p) /\ SubSeq(s, 1, Len(p)) = p

ESI_PREFIX == << "esi:" >>
ESI_REMOVE == << "esi:", "remove" >>
ESI_INCLUDE == << "esi:", "include" >>
ESI_COMMENT == << "esi:", "comment" >>
ESI_REMOVED == << "esi:", "remove", "d" >>
DIV == << "div" >>

-----------------------------------------------------------------------------
(* ExecutionError *)

NoError == [kind |-> "None", a |-> << >>, b |-> << >>]
XMLError == [kind |-> "XMLError", a |-> << >>, b |-> << >>]
(* faulty variant: the two fields are filled in the wrong order *)
MissingRequiredParameterSwapped(tag, param) ==
    [kind |-> "MissingRequiredParameter", a |-> param, b |-> tag]
MissingRequiredParameter(tag, param) ==
    [kind |-> "MissingRequiredParameter", a |-> tag, b |-> param]
UnexpectedClosingTag(name) ==
    [kind |-> "UnexpectedClosingTag", a |-> name, b |-> << >>]
DuplicateTagAttribute(key) ==
    [kind |-> "DuplicateTagAttribute", a |-> << key >>, b |-> << >>]
(* the error value the ExecutionContext returns for a failed request to url *)
ClientError(url) == [kind |-> "Client", a |-> << url >>, b |-> << >>]

(* Result<T> *)
ROk(v) == [ok |-> TRUE, value |-> v, err |-> NoError]
RErr(e) == [ok |-> FALSE, value |-> << >>, err |-> e]

-----------------------------------------------------------------------------
(* quick_xml events, as the reader returns them *)

Ev(kind, name, attrs, text) ==
    [kind |-> kind, name |-> name, attrs |-> attrs, text |-> text]
StartEv(name) == Ev("Start", name, << >>, << >>)
EndEv(name) == Ev("End", name, << >>, << >>)
EmptyEv(name, attrs) == Ev("Empty", name, attrs, << >>)
TextEv(text) == Ev("Text", << >>, << >>, text)
ErrItem == Ev("Err", << >>, << >>, << >>)
EofItem == Ev("Eof", << >>, << >>, << >>)

(* Response.body of a successful request to url *)
Body(url) == << "body-of", url >>

-----------------------------------------------------------------------------
(* HashMap *)

EmptyMap == [k \in {} |-> << >>]

(* HashMap::insert: the updated map and the value previously stored at k *)
HashMapInsert(m, k, v) ==
    [map |-> [x \in (DOMAIN m) \cup {k} |-> IF x = k THEN v ELSE m[x]],
     old |-> IF k \in DOMAIN m THEN Some(m[k]) ELSE None]

HashMapGet(m, k) == IF k \in DOMAIN m THEN Some(m[k]) ELSE None

-----------------------------------------------------------------------------
(* parse_attributes.  A tag's raw attribute list is a sequence of          *)
(* <<key, value>> pairs in the order written.                              *)

AttrOk(pair) == [ok |-> TRUE, key |-> pair[1], value |-> pair[2]]
AttrErr == [ok |-> FALSE, key |-> "", value |-> ""]

(* BytesStart::attributes(): quick_xml's iterator of Result<Attribute>.    *)
(* It is created with its uniqueness check on (with_checks(true) is the    *)
(* default): a key already seen is reported as an Err item, and the        *)
(* iteration ends there.                                                   *)
RECURSIVE AttributesFrom(_, _, _)
AttributesFrom(raw, i, consumed) ==
    IF i > Len(raw) THEN << >>
    ELSE IF raw[i][1] \in consumed THEN << AttrErr >>
    ELSE << AttrOk(raw[i]) >>
             \o AttributesFrom(raw, i + 1, consumed \cup {raw[i][1]})

Attributes(raw) == AttributesFrom(raw, 1, {})

(* Iterator::flatten over Result items: the Err items are dropped *)
Flatten(items) == SelectSeq(items, LAMBDA r : r.ok)

RECURSIVE ParseAttributesLoop(_, _, _)
ParseAttributesLoop(entries, i, m) ==
    IF i > Len(entries) THEN ROk(m)
    ELSE LET ins == HashMapInsert(m, entries[i].key, entries[i].value)
         IN  IF IsSome(ins.old)
             THEN RErr(DuplicateTagAttribute(entries[i].key))
             ELSE ParseAttributesLoop(entries, i + 1, ins.map)

parse_attributes(raw) == ParseAttributesLoop(Flatten(Attributes(raw)), 1, EmptyMap)

(* Tag and TagEntry *)
Tag(name, parameters) == [name |-> name, content |-> None, parameters |-> parameters]
TagEntry(event, esi_tag) == [event |-> event, esi_tag |-> esi_tag]

get_param(tag, key) == HashMapGet(tag.parameters, key)

-----------------------------------------------------------------------------
(* Inputs *)

IncludeAttrs ==
    { << >>,
      << <<"src", "A">> >>,
      << <<"src", "A">>, <<"alt", "B">> >>,
      << <<"src", "A">>, <<"onerror", "continue">> >>,
      << <<"src", "A">>, <<"alt", "B">>, <<"onerror", "continue">> >>,
      << <<"src", "A">>, <<"onerror", "abort">> >>,
      << <<"src", "A">>, <<"src", "B">> >> }

(* reader results of the full transform *)
ReaderItems ==
    { TextEv(<< "t" >>), ErrItem,
      StartEv(DIV), EndEv(DIV), EmptyEv(DIV, << >>),
      StartEv(ESI_REMOVE), EndEv(ESI_REMOVE), EmptyEv(ESI_REMOVE, << >>),
      StartEv(ESI_COMMENT), EndEv(ESI_COMMENT), EmptyEv(ESI_COMMENT, << >>),
      StartEv(ESI_REMOVED) }
    \cup { EmptyEv(ESI_INCLUDE, a) : a \in IncludeAttrs }

(* reader results of the parser alone: longer streams, fewer tags *)
ParseItems ==
    { TextEv(<< "t" >>), ErrItem, StartEv(DIV),
      StartEv(ESI_REMOVE), EndEv(ESI_REMOVE),
      StartEv(ESI_REMOVED), EndEv(ESI_REMOVED),
      EmptyEv(ESI_INCLUDE, << <<"src", "A">> >>),
      EmptyEv(ESI_INCLUDE, << <<"src", "A">>, <<"src", "B">> >>) }

AttrPairs == { <<k, v>> : k \in {"src", "alt", "onerror"}, v \in {"A", "B"} }

RECURSIVE SeqsUpTo(_, _)
SeqsUpTo(S, n) ==
    IF n = 0 THEN { << >> }
    ELSE LET shorter == SeqsUpTo(S, n - 1)
         IN  shorter \cup { Append(s, x) : s \in shorter, x \in S }

-----------------------------------------------------------------------------
(* The reader: Reader::read_event on the body *)

(* what the next read_event call can return *)
NextResults(Items, Max) ==
    IF pos < Len(body) THEN { body[pos + 1] }
    ELSE IF closed \/ Len(body) >= Max THEN { EofItem }
    ELSE Items \cup { EofItem }

Consume(item) ==
    IF pos < Len(body)
    THEN pos' = pos + 1 /\ UNCHANGED <<body, closed>>
    ELSE IF item = EofItem
         THEN closed' = TRUE /\ UNCHANGED <<body, pos>>
         ELSE body' = Append(body, item) /\ pos' = pos + 1 /\ UNCHANGED closed

-----------------------------------------------------------------------------
(* parse_tag_entries: one action per match arm of the loop body *)

(* elem.starts_with(b"esi:remove"): BytesStart and BytesEnd deref to the   *)
(* tag's bytes, which begin with its name                                   *)
(* faulty variant: every start and end tag of the esi: namespace is taken  *)
(* for a remove tag                                                         *)
IsRemoveTagAnyEsi(elem) == StartsWith(elem.name, ESI_PREFIX)
IsRemoveTag(elem) == StartsWith(elem.name, ESI_REMOVE)
IsRemoveStart(item) == item.kind = "Start" /\ IsRemoveTag(item)
(* faulty variant: the end tag is recognised only inside a remove block *)
IsRemoveEndInBlock(item) == item.kind = "End" /\ IsRemoveTag(item) /\ remove
IsRemoveEnd(item) == item.kind = "End" /\ IsRemoveTag(item)
(* faulty variant: every self-closing tag is taken for an ESI tag *)
IsAnyEmpty(item) == item.kind = "Empty"
IsEsiEmpty(item) == item.kind = "Empty" /\ StartsWith(item.name, ESI_PREFIX)

NoResult == [status |-> "Running", output |-> << >>, error |-> NoError]
OkResult(output) == [status |-> "Ok", output |-> output, error |-> NoError]
ErrResult(e) == [status |-> "Err", output |-> << >>, error |-> e]
PanicResult == [status |-> "Panic", output |-> << >>, error |-> NoError]

Running == result.status = "Running"
Ended == ~Running

(* `return Err(e)`, `?` and a panic end transform_esi_string where it is:  *)
(* the caller receives r and nothing else                                   *)
Return(r) ==
    /\ result' = r
    /\ UNCHANGED <<pc, events, out, index>>

ParseFrame == <<map, calls, out, result, round, input0, index, tagBytes, attrResult, fastly>>
ParseErrFrame == <<remove, map, calls, round, input0, tagBytes, attrResult, fastly>>

RemoveStart(Items, Max) ==
    /\ pc = "parse" /\ Running
    /\ \E item \in NextResults(Items, Max) :
        /\ IsRemoveStart(item)
        /\ Consume(item)
        /\ remove' = TRUE
        /\ UNCHANGED <<events, pc>>
        /\ UNCHANGED ParseFrame

RemoveEndUnexpected(Items, Max) ==
    /\ pc = "parse" /\ Running
    /\ \E item \in NextResults(Items, Max) :
        /\ IsRemoveEnd(item)
        /\ ~remove
        /\ Consume(item)
        /\ Return(ErrResult(UnexpectedClosingTag(item.name)))
        /\ UNCHANGED ParseErrFrame

RemoveEnd(Items, Max) ==
    /\ pc = "parse" /\ Running
    /\ \E item \in NextResults(Items, Max) :
        /\ IsRemoveEnd(item)
        /\ remove
        /\ Consume(item)
        /\ remove' = FALSE
        /\ UNCHANGED <<events, pc>>
        /\ UNCHANGED ParseFrame

(* `_ if remove => continue`: every other reader result, Eof and Err too *)
SkipRemoved(Items, Max) ==
    /\ pc = "parse" /\ Running
    /\ \E item \in NextResults(Items, Max) :
        /\ ~IsRemoveStart(item) /\ ~IsRemoveEnd(item)
        /\ remove
        /\ Consume(item)
        /\ UNCHANGED <<remove, events, pc>>
        /\ UNCHANGED ParseFrame

(* faulty variant: the arm for self-closing ESI tags stands before the     *)
(* `_ if remove` arm                                                        *)
EsiEmptyArmFirst(item) == IsEsiEmpty(item)
(* the arm for self-closing ESI tags is reached: it stands after the       *)
(* `_ if remove => continue` arm                                            *)
EsiEmptyArm(item) == ~remove /\ IsEsiEmpty(item)

(* Ok(Event::Empty(elem)) if elem.name().starts_with(b"esi:") *)
EsiEmptyTag(Items, Max) ==
    /\ pc = "parse" /\ Running
    /\ \E item \in NextResults(Items, Max) :
        /\ EsiEmptyArm(item)
        /\ Consume(item)
        /\ LET parameters == parse_attributes(item.attrs)
           IN  IF parameters.ok
               THEN /\ events' = Append(events,
                           TagEntry(None, Some(Tag(item.name, parameters.value))))
                    /\ UNCHANGED <<remove, pc>>
                    /\ UNCHANGED ParseFrame
               ELSE /\ Return(ErrResult(parameters.err))
                    /\ UNCHANGED ParseErrFrame

(* Ok(Event::Eof) => break; parse_tag_entries returns Ok(events) *)
ParseEof(Items, Max) ==
    /\ pc = "parse" /\ Running
    /\ \E item \in NextResults(Items, Max) :
        /\ ~remove
        /\ item.kind = "Eof"
        /\ Consume(item)
        /\ pc' = "execute"
        /\ index' = 0
        /\ map' = EmptyMap
        /\ UNCHANGED <<remove, events, calls, out, result, round, input0,
                       tagBytes, attrResult, fastly>>

Passthrough(Items, Max) ==
    /\ pc = "parse" /\ Running
    /\ \E item \in NextResults(Items, Max) :
        /\ ~remove
        /\ item.kind \in {"Start", "End", "Empty", "Text"}
        /\ ~IsRemoveStart(item) /\ ~IsRemoveEnd(item) /\ ~IsEsiEmpty(item)
        /\ Consume(item)
        /\ events' = Append(events, TagEntry(Some(item), None))
        /\ UNCHANGED <<remove, pc>>
        /\ UNCHANGED ParseFrame

(* `_ => {}`: an Err of the reader outside a remove block *)
IgnoreReaderError(Items, Max) ==
    /\ pc = "parse" /\ Running
    /\ \E item \in NextResults(Items, Max) :
        /\ ~remove
        /\ item.kind = "Err"
        /\ Consume(item)
        /\ UNCHANGED <<remove, events, pc>>
        /\ UNCHANGED ParseFrame

ParseStep(Items, Max) ==
    \/ RemoveStart(Items, Max)
    \/ RemoveEndUnexpected(Items, Max)
    \/ RemoveEnd(Items, Max)
    \/ SkipRemoved(Items, Max)
    \/ EsiEmptyTag(Items, Max)
    \/ ParseEof(Items, Max)
    \/ Passthrough(Items, Max)
    \/ IgnoreReaderError(Items, Max)

-----------------------------------------------------------------------------
(* send_request: src first, alt only when src failed.  answer1 and answer2 *)
(* are what the client does with the first and the second request.         *)

Call(i, url, ok) == [index |-> i, url |-> url, ok |-> ok]

(* faulty variant: when the fallback fails too, its error is returned *)
send_request_alt_error(i, src, alt, answer1, answer2) ==
    IF answer1
    THEN [res |-> ROk(Body(src)), sent |-> << Call(i, src, TRUE) >>]
    ELSE IF IsSome(alt)
         THEN IF answer2
              THEN [res |-> ROk(Body(Unwrap(alt))),
                    sent |-> << Call(i, src, FALSE), Call(i, Unwrap(alt), TRUE) >>]
              ELSE [res |-> RErr(ClientError(Unwrap(alt))),
                    sent |-> << Call(i, src, FALSE), Call(i, Unwrap(alt), FALSE) >>]
         ELSE [res |-> RErr(ClientError(src)), sent |-> << Call(i, src, FALSE) >>]

(* faulty variant: the fallback is requested whenever the tag has one *)
send_request_eager_alt(i, src, alt, answer1, answer2) ==
    IF IsSome(alt)
    THEN [res |-> IF answer1 THEN ROk(Body(src))
                  ELSE IF answer2 THEN ROk(Body(Unwrap(alt)))
                  ELSE RErr(ClientError(src)),
          sent |-> << Call(i, src, answer1), Call(i, Unwrap(alt), answer2) >>]
    ELSE [res |-> IF answer1 THEN ROk(Body(src)) ELSE RErr(ClientError(src)),
          sent |-> << Call(i, src, answer1) >>]

send_request(i, src, alt, answer1, answer2) ==
    IF answer1
    THEN [res |-> ROk(Body(src)), sent |-> << Call(i, src, TRUE) >>]
    ELSE IF IsSome(alt)
         THEN IF answer2
              THEN [res |-> ROk(Body(Unwrap(alt))),
                    sent |-> << Call(i, src, FALSE), Call(i, Unwrap(alt), TRUE) >>]
              ELSE [res |-> RErr(ClientError(src)),
                    sent |-> << Call(i, src, FALSE), Call(i, Unwrap(alt), FALSE) >>]
         ELSE [res |-> RErr(ClientError(src)), sent |-> << Call(i, src, FALSE) >>]

-----------------------------------------------------------------------------
(* execute_tag_entries: one action per loop iteration *)

IsInclude(entry) ==
    IsSome(entry.esi_tag) /\ Unwrap(entry.esi_tag).name = ESI_INCLUDE

ExecFrame == <<body, closed, pos, remove, round, input0, tagBytes, attrResult, fastly>>

(* map.insert(index, content).unwrap(): the insert is done, and            *)
(* Option::unwrap panics when insert returned None (no value was stored    *)
(* at the key before)                                                       *)
InsertUnwrap(content) ==
    LET ins == HashMapInsert(map, index, content)
    IN  /\ map' = ins.map
        /\ IF IsSome(ins.old)
           THEN /\ index' = index + 1
                /\ UNCHANGED <<events, out, pc, result>>
           ELSE Return(PanicResult)

(* faulty variant: a missing onerror is treated like onerror="continue" *)
OnErrorContinueByDefault(onerror) ==
    ~IsSome(onerror) \/ Unwrap(onerror) = "continue"
(* faulty variant: the failure is dropped and the loop goes on *)
FetchFailedIgnored(err) ==
    /\ index' = index + 1
    /\ UNCHANGED <<events, map, out, pc, result>>
(* `return Err(err)` of execute_tag_entries, passed on by `?` *)
FetchFailed(err) == Return(ErrResult(err)) /\ UNCHANGED map

(* Some(onerror) if onerror == "continue" *)
OnErrorContinue(onerror) == IsSome(onerror) /\ Unwrap(onerror) = "continue"

SkipEntry ==
    /\ pc = "execute" /\ Running
    /\ index < Len(events)
    /\ ~IsInclude(events[index + 1])
    /\ index' = index + 1
    /\ UNCHANGED <<events, map, calls, out, pc, result>>
    /\ UNCHANGED ExecFrame

IncludeMissingSrc ==
    /\ pc = "execute" /\ Running
    /\ index < Len(events)
    /\ IsInclude(events[index + 1])
    /\ LET tag == Unwrap(events[index + 1].esi_tag)
       IN  /\ ~IsSome(get_param(tag, "src"))
           /\ Return(ErrResult(MissingRequiredParameter(tag.name, << "src" >>)))
    /\ UNCHANGED <<map, calls>>
    /\ UNCHANGED ExecFrame

IncludeFetch ==
    /\ pc = "execute" /\ Running
    /\ index < Len(events)
    /\ IsInclude(events[index + 1])
    /\ LET tag == Unwrap(events[index + 1].esi_tag)
       IN  /\ IsSome(get_param(tag, "src"))
           /\ \E answer1, answer2 \in BOOLEAN :
                LET sr == send_request(index, Unwrap(get_param(tag, "src")),
                                       get_param(tag, "alt"), answer1, answer2)
                IN  /\ calls' = calls \o sr.sent
                    /\ IF sr.res.ok
                       THEN InsertUnwrap(sr.res.value)
                       ELSE IF OnErrorContinue(get_param(tag, "onerror"))
                            THEN InsertUnwrap(<< >>)
                            ELSE FetchFailed(sr.res.err)
    /\ UNCHANGED ExecFrame

(* Ok(map): transform_esi_string goes on to build the output *)
ExecuteDone ==
    /\ pc = "execute" /\ Running
    /\ index >= Len(events)
    /\ pc' = "assemble"
    /\ index' = 0
    /\ out' = << >>
    /\ UNCHANGED <<events, map, calls, result>>
    /\ UNCHANGED ExecFrame

-----------------------------------------------------------------------------
(* transform_esi_string: the output loop *)

(* faulty variant: an instruction with no content in the map is written    *)
(* back as its tag                                                          *)
WrittenTagBack(entry, content) ==
    IF IsSome(entry.esi_tag)
    THEN IF IsSome(content) THEN << TextEv(Unwrap(content)) >>
         ELSE << EmptyEv(Unwrap(entry.esi_tag).name, << >>) >>
    ELSE IF IsSome(entry.event) THEN << Unwrap(entry.event) >> ELSE << >>
(* what Writer::write_event appends for one entry *)
Written(entry, content) ==
    IF IsSome(entry.esi_tag)
    THEN IF IsSome(content) THEN << TextEv(Unwrap(content)) >> ELSE << >>
    ELSE IF IsSome(entry.event) THEN << Unwrap(entry.event) >> ELSE << >>

WriteEntry ==
    /\ pc = "assemble" /\ Running
    /\ index < Len(events)
    /\ out' = out \o Written(events[index + 1], HashMapGet(map, index))
    /\ index' = index + 1
    /\ UNCHANGED <<events, map, calls, pc, result>>
    /\ UNCHANGED ExecFrame

(* Ok(writer.into_inner()) *)
Finish ==
    /\ pc = "assemble" /\ Running
    /\ index >= Len(events)
    /\ Return(OkResult(out))
    /\ UNCHANGED <<map, calls>>
    /\ UNCHANGED ExecFrame

(* the caller applies transform_esi_string to the document it returned *)
Reapply ==
    /\ result.status = "Ok"
    /\ round < MaxRounds
    /\ body' = result.output
    /\ closed' = TRUE
    /\ pos' = 0
    /\ remove' = FALSE
    /\ events' = << >>
    /\ index' = 0
    /\ map' = EmptyMap
    /\ out' = << >>
    /\ pc' = "parse"
    /\ result' = NoResult
    /\ round' = round + 1
    /\ input0' = IF round = 0 THEN body ELSE input0
    /\ UNCHANGED <<calls, tagBytes, attrResult, fastly>>

-----------------------------------------------------------------------------
(* a direct call of parse_attributes on a tag's attribute list *)

CallParseAttributes ==
    /\ pc = "attrs"
    /\ attrResult = None
    /\ attrResult' = Some(parse_attributes(tagBytes))
    /\ UNCHANGED <<body, closed, pos, remove, events, index, map, calls, out,
                   pc, result, round, input0, tagBytes, fastly>>

-----------------------------------------------------------------------------
(* crate esi_fastly: FastlyRequestHandler::send_request, the               *)
(* ExecutionContext that process_esi hands to transform_esi_string.  One   *)
(* call: the request URL, and what the backend does with the request       *)
(* (bereq.send fails, or a response with a u16 status code comes back).    *)

OkStatusMin == 200
OkStatusMax == 299
StatusCodes == 100 .. 599

(* request URLs: absolute with a host, relative, absolute without a host  *)
Urls == { "http://host/a", "/a", "mailto:a" }

(* Url::from_str: Err for a relative URL (no base to resolve it against)  *)
UrlFromStr(url) == IF url = "/a" THEN None ELSE Some(url)
(* Url::host_str *)
host_str(parsed_url) == IF parsed_url = "http://host/a" THEN Some("host") ELSE None

(* ExecutionError::Unknown *)
UnknownError == [kind |-> "Unknown", a |-> << >>, b |-> << >>]

Response(body_bytes, status_code) ==
    [kind |-> "Ok", status_code |-> status_code, body |-> body_bytes,
     error |-> NoError]
FastlyErr(e) == [kind |-> "Err", status_code |-> 0, body |-> << >>, error |-> e]
FastlyPanic == [kind |-> "Panic", status_code |-> 0, body |-> << >>,
                error |-> NoError]

(* beresp.get_status().as_u16() < 200 || ... > 299 *)
BadStatus(status) == status < OkStatusMin \/ status > OkStatusMax

FastlySendRequest(url, sendOk, status) ==
    IF ~IsSome(UrlFromStr(url)) THEN FastlyPanic
    ELSE IF ~IsSome(host_str(Unwrap(UrlFromStr(url)))) THEN FastlyPanic
    ELSE IF ~sendOk THEN FastlyPanic
    ELSE IF BadStatus(status) THEN FastlyErr(UnknownError)
    ELSE Response(Body(url), status)

NoFastlyCall == [url |-> "", sendOk |-> FALSE, status |-> 0, ret |-> None]

CallFastlySendRequest ==
    /\ pc = "fastly"
    /\ fastly.ret = None
    /\ fastly' = [fastly EXCEPT
                    !.ret = Some(FastlySendRequest(fastly.url, fastly.sendOk,
                                                   fastly.status))]
    /\ UNCHANGED <<body, closed, pos, remove, events, index, map, calls, out,
                   pc, result, round, input0, tagBytes, attrResult>>

-----------------------------------------------------------------------------
Init ==
    /\ body = << >>
    /\ closed = FALSE
    /\ pos = 0
    /\ remove = FALSE
    /\ events = << >>
    /\ index = 0
    /\ map = EmptyMap
    /\ calls = << >>
    /\ out = << >>
    /\ pc = "parse"
    /\ result = NoResult
    /\ round = 0
    /\ input0 = << >>
    /\ tagBytes = << >>
    /\ attrResult = None
    /\ fastly = NoFastlyCall

InitAttrs ==
    /\ body = << >>
    /\ closed = FALSE
    /\ pos = 0
    /\ remove = FALSE
    /\ events = << >>
    /\ index = 0
    /\ map = EmptyMap
    /\ calls = << >>
    /\ out = << >>
    /\ pc = "attrs"
    /\ result = NoResult
    /\ round = 0
    /\ input0 = << >>
    /\ tagBytes \in SeqsUpTo(AttrPairs, MaxAttrs)
    /\ attrResult = None
    /\ fastly = NoFastlyCall

InitFastly ==
    /\ body = << >>
    /\ closed = FALSE
    /\ pos = 0
    /\ remove = FALSE
    /\ events = << >>
    /\ index = 0
    /\ map = EmptyMap
    /\ calls = << >>
    /\ out = << >>
    /\ pc = "fastly"
    /\ result = NoResult
    /\ round = 0
    /\ input0 = << >>
    /\ tagBytes = << >>
    /\ attrResult = None
    /\ \E url \in Urls, sendOk \in BOOLEAN, status \in StatusCodes :
         fastly = [url |-> url, sendOk |-> sendOk, status |-> status,
                   ret |-> None]

Next ==
    \/ ParseStep(ReaderItems, MaxDoc)
    \/ SkipEntry
    \/ IncludeMissingSrc
    \/ IncludeFetch
    \/ ExecuteDone
    \/ WriteEntry
    \/ Finish
    \/ Reapply

NextParse == ParseStep(ParseItems, MaxParseDoc)

Spec == Init /\ [][Next]_vars
SpecParse == Init /\ [][NextParse]_vars
SpecAttrs == InitAttrs /\ [][CallParseAttributes]_vars
SpecFastly == InitFastly /\ [][CallFastlySendRequest]_vars

-----------------------------------------------------------------------------
(* Vocabulary of the properties *)

EventsOnly(doc) == \A i \in 1..Len(doc) : doc[i].kind # "Err"
NoEsiTags(doc) == \A i \in 1..Len(doc) : ~StartsWith(doc[i].name, << "esi:" >>)

(* the document the first application was given *)
FirstInput == IF round = 0 THEN body ELSE input0

(* the tag of entry i (0-based), when it is a self-closing esi:include *)
IncludeAt(i) ==
    /\ i < Len(events)
    /\ IsSome(events[i + 1].esi_tag)
    /\ Unwrap(events[i + 1].esi_tag).name = << "esi:", "include" >>
TagAt(i) == Unwrap(events[i + 1].esi_tag)
HasParam(i, key) == key \in DOMAIN TagAt(i).parameters
CallsFor(i) == SelectSeq(calls, LAMBDA c : c.index = i)

(* where entry i's substitution stands in the output: after what the      *)
(* entries before it wrote                                                  *)
Writes(j) ==
    IF IsSome(events[j + 1].esi_tag) THEN j \in DOMAIN map ELSE TRUE
OutputPosition(i) == 1 + Cardinality({ j \in 0..(i - 1) : Writes(j) })

-----------------------------------------------------------------------------
(* C1: a document whose event stream holds no esi: tag (and no reader      *)
(* error) comes back unchanged, event for event, as Ok; no request is sent  *)
(* to the fetch client; and re-applying the transform to its own output,    *)
(* any number of times, returns the first document again.                   *)
C1_NoEsiDocumentUnchanged ==
    (EventsOnly(FirstInput) /\ NoEsiTags(FirstInput)) =>
        /\ calls = << >>
        /\ result.status \in {"Running", "Ok"}
        /\ Ended => result = [status |-> "Ok", output |-> FirstInput,
                              error |-> NoError]

C1_Witness ==
    /\ Ended /\ round = 2
    /\ EventsOnly(input0) /\ NoEsiTags(input0)
    /\ Len(input0) = 3
    /\ input0[1].kind = "Start" /\ input0[2].kind = "Empty"
    /\ result.output = input0

(* C2 (as claimed): once the fetch for an include entry has succeeded, the  *)
(* response body is in the result map at that entry's index, the transform  *)
(* does not end abnormally, and when it returns Ok the body stands at the   *)
(* entry's position in the output.                                          *)
C2_ResolvedIncludeEmitted ==
    round = 0 =>
        \A k \in 1..Len(calls) :
            calls[k].ok =>
                LET i == calls[k].index
                    content == << "body-of", calls[k].url >>
                IN  /\ i \in DOMAIN map /\ map[i] = content
                    /\ result.status # "Panic"
                    /\ result.status = "Ok" =>
                           /\ OutputPosition(i) <= Len(result.output)
                           /\ result.output[OutputPosition(i)].text = content


(* C3 (as claimed): for an include with src and alt whose first request     *)
(* failed and whose second request succeeded, the transform does not end    *)
(* abnormally, the fetch client was called exactly twice for it (src, then  *)
(* alt), and when the transform returns Ok the alt response's body stands   *)
(* at the include's position.                                               *)
C3_FallbackBodyEmitted ==
    round = 0 =>
        \A i \in 0..(Len(events) - 1) :
            (/\ IncludeAt(i) /\ HasParam(i, "src") /\ HasParam(i, "alt")
             /\ Len(CallsFor(i)) >= 2
             /\ ~CallsFor(i)[1].ok /\ CallsFor(i)[2].ok) =>
                /\ Len(CallsFor(i)) = 2
                /\ CallsFor(i)[1].url = TagAt(i).parameters["src"]
                /\ CallsFor(i)[2].url = TagAt(i).parameters["alt"]
                /\ result.status # "Panic"
                /\ result.status = "Ok" =>
                       /\ OutputPosition(i) <= Len(result.output)
                       /\ result.output[OutputPosition(i)].text
                              = << "body-of", TagAt(i).parameters["alt"] >>

(* C4 (as claimed): for an include with onerror="continue" whose requests   *)
(* all failed, an empty byte sequence is recorded at its index, the         *)
(* executor goes on with the next entry, and the failure never ends the     *)
(* transform: neither as an error nor abnormally.                           *)
C4_OnErrorContinueEmpty ==
    round = 0 =>
        \A i \in 0..(Len(events) - 1) :
            (/\ IncludeAt(i) /\ HasParam(i, "onerror")
             /\ TagAt(i).parameters["onerror"] = "continue"
             /\ CallsFor(i) # << >>
             /\ \A k \in 1..Len(CallsFor(i)) : ~CallsFor(i)[k].ok) =>
                /\ i \in DOMAIN map /\ map[i] = << >>
                /\ result.status # "Panic"
                /\ ~(result.status = "Err" /\ pc = "execute" /\ index = i)
                /\ (pc = "execute" => index > i)

(* C5: for an include with src, no alt and no onerror whose request failed, *)
(* the transform ends in the executor, at that entry, with the fetch        *)
(* client's error for src, and no output document exists.                   *)
C5_FetchFailureIsFatal ==
    round = 0 =>
        \A i \in 0..(Len(events) - 1) :
            (/\ IncludeAt(i) /\ HasParam(i, "src")
             /\ ~HasParam(i, "alt") /\ ~HasParam(i, "onerror")
             /\ CallsFor(i) # << >>
             /\ ~CallsFor(i)[1].ok) =>
                /\ result = [status |-> "Err", output |-> << >>,
                             error |-> [kind |-> "Client",
                                        a |-> << TagAt(i).parameters["src"] >>,
                                        b |-> << >>]]
                /\ pc = "execute" /\ index = i
                /\ out = << >>

C5_Witness ==
    /\ Ended /\ pc = "execute" /\ index = 1
    /\ IncludeAt(1) /\ TagAt(1).parameters = [src |-> "A"]
    /\ calls = << [index |-> 1, url |-> "A", ok |-> FALSE] >>
    /\ result.error.kind = "Client"

-----------------------------------------------------------------------------
(* The remove-block state machine, read off the document alone: the depth   *)
(* of open <esi:remove> elements after the first n reader results.          *)

IsRemoveStartTag(item) == item.kind = "Start" /\ item.name = << "esi:", "remove" >>
IsRemoveEndTag(item) == item.kind = "End" /\ item.name = << "esi:", "remove" >>

RECURSIVE DepthAfter(_, _)
DepthAfter(doc, n) ==
    IF n = 0 THEN 0
    ELSE IF IsRemoveStartTag(doc[n]) THEN DepthAfter(doc, n - 1) + 1
    ELSE IF IsRemoveEndTag(doc[n]) /\ DepthAfter(doc, n - 1) > 0
         THEN DepthAfter(doc, n - 1) - 1
    ELSE DepthAfter(doc, n - 1)

(* every </esi:remove> closes an open <esi:remove>, and none stays open *)
WellFormedRemoves(doc) ==
    /\ \A n \in 1..Len(doc) :
           IsRemoveEndTag(doc[n]) => DepthAfter(doc, n - 1) > 0
    /\ DepthAfter(doc, Len(doc)) = 0

(* result n lies outside every remove pair *)
OutsideRemoves(doc, n) ==
    DepthAfter(doc, n - 1) = 0 /\ ~IsRemoveStartTag(doc[n])

(* only the two supported instructions and plain markup *)
PlainTags(doc) ==
    \A n \in 1..Len(doc) :
        doc[n].name \in { << >>, << "div" >>, << "esi:", "remove" >>,
                          << "esi:", "include" >> }

(* the reader result an entry was made from *)
RECURSIVE OutsideFrom(_, _)
OutsideFrom(doc, n) ==
    IF n > Len(doc) THEN << >>
    ELSE (IF OutsideRemoves(doc, n) THEN << doc[n] >> ELSE << >>)
             \o OutsideFrom(doc, n + 1)

EntryKind(entry) ==
    IF IsSome(entry.esi_tag) THEN "Empty" ELSE Unwrap(entry.event).kind
EntryName(entry) ==
    IF IsSome(entry.esi_tag) THEN Unwrap(entry.esi_tag).name
    ELSE Unwrap(entry.event).name

(* C7: a </esi:remove> end tag read while no remove block is open ends the  *)
(* parse with UnexpectedClosingTag; read while a remove block is open, it   *)
(* puts the parser back to Normal, with no error and no entry.              *)
C7_RemoveEndTag ==
    [][ (/\ pc = "parse" /\ Running
         /\ pos' = pos + 1
         /\ IsRemoveEndTag(body'[pos'])) =>
            IF remove
            THEN /\ result' = result
                 /\ remove' = FALSE
                 /\ events' = events
            ELSE result' = [status |-> "Err", output |-> << >>,
                            error |-> [kind |-> "UnexpectedClosingTag",
                                       a |-> << "esi:", "remove" >>,
                                       b |-> << >>]]
      ]_vars

(* the second </esi:remove> of a nested pair is read in state Normal *)
C7_Witness ==
    /\ Len(body) = 4 /\ pos = 4
    /\ IsRemoveStartTag(body[1]) /\ IsRemoveStartTag(body[2])
    /\ IsRemoveEndTag(body[3]) /\ IsRemoveEndTag(body[4])
    /\ result.status = "Err" /\ result.error.kind = "UnexpectedClosingTag"

(* C8 (as claimed): in a document of events whose remove tags pair up,      *)
(* nested pairs included, the parse does not fail, and once it has          *)
(* returned the entries are exactly the events outside the pairs, in order. *)
C8_WellFormedRemoveRemoved ==
    (/\ round = 0 /\ EventsOnly(body) /\ PlainTags(body)
     /\ WellFormedRemoves(body)) =>
        /\ result.status # "Err"
        /\ (pc = "execute" /\ index = 0) =>
               /\ Len(events) = Len(OutsideFrom(body, 1))
               /\ \A k \in 1..Len(events) :
                      /\ EntryKind(events[k]) = OutsideFrom(body, 1)[k].kind
                      /\ EntryName(events[k]) = OutsideFrom(body, 1)[k].name

(* C9 (as claimed): once the reader has reported a syntax error, the parse  *)
(* has ended with ExecutionError::XMLError, in either parser state.         *)
C9_ReaderErrorAborts ==
    round = 0 =>
        \A k \in 1..pos :
            body[k].kind = "Err" =>
                /\ pc = "parse"
                /\ result = [status |-> "Err", output |-> << >>,
                             error |-> XMLError]

-----------------------------------------------------------------------------
(* C10 (as claimed): parse_attributes on a tag in which some attribute name *)
(* occurs twice returns Err(DuplicateTagAttribute(name)), name being the    *)
(* first name to occur a second time, and no mapping.                       *)

IsRepeatAt(raw, j) == \E i \in 1..(j - 1) : raw[i][1] = raw[j][1]
HasRepeat(raw) == \E j \in 1..Len(raw) : IsRepeatAt(raw, j)
FirstRepeat(raw) ==
    CHOOSE j \in 1..Len(raw) :
        IsRepeatAt(raw, j) /\ \A i \in 1..(j - 1) : ~IsRepeatAt(raw, i)

C10_DuplicateAttributeRejected ==
    (IsSome(attrResult) /\ HasRepeat(tagBytes)) =>
        /\ ~Unwrap(attrResult).ok
        /\ Unwrap(attrResult).err =
               [kind |-> "DuplicateTagAttribute",
                a |-> << tagBytes[FirstRepeat(tagBytes)][1] >>, b |-> << >>]

-----------------------------------------------------------------------------
(* C11 (as claimed): a call of transform_esi_string that has ended has      *)
(* returned Ok with the assembled document, or Err with one of the errors   *)
(* of the taxonomy and no output; nothing else is reachable.                *)

TaxonomyErrors ==
    { "XMLError", "MissingRequiredParameter", "UnexpectedClosingTag",
      "DuplicateTagAttribute", "Client", "Unknown" }

C11_OkOrTaxonomyError ==
    Ended =>
        \/ /\ result.status = "Ok"
           /\ pc = "assemble"
           /\ result.output = out
        \/ /\ result.status = "Err"
           /\ result.error.kind \in TaxonomyErrors
           /\ result.output = << >>

-----------------------------------------------------------------------------
(* C12 (as claimed): once the executor has made its fetch calls for an      *)
(* include entry, the entry has its content in the map and the executor     *)
(* goes on to return Ok, or the transform has failed with an error; and     *)
(* when the executor has returned Ok the keys of the map are exactly the    *)
(* indices of the include entries.                                          *)

IncludeIndices == { i \in 0..(Len(events) - 1) : IncludeAt(i) }

C12_IncludesResolvedOrFailed ==
    round = 0 =>
        /\ \A i \in IncludeIndices :
               CallsFor(i) # << >> =>
                   \/ i \in DOMAIN map /\ result.status \in { "Running", "Ok" }
                   \/ result.status = "Err"
        /\ pc = "assemble" => DOMAIN map = IncludeIndices

-----------------------------------------------------------------------------
(* C13 (as claimed): when read_event has returned the end of the stream,    *)
(* the parse loop has ended and parse_tag_entries has returned Ok (the      *)
(* call is at the executor), whether or not a remove block was open.        *)

C13_EndOfStreamEndsParse ==
    closed => (pc = "execute" /\ result.status = "Running")

-----------------------------------------------------------------------------
(* C14: when every request made for an include failed (the one for src,    *)
(* and the one for alt when the tag has an alt) and the tag does not say    *)
(* onerror="continue", the error the call returns is the one the client     *)
(* gave for the src request, never the one for the alt request.             *)

AllFailed(cs) == cs # << >> /\ \A k \in 1..Len(cs) : ~cs[k].ok
SaysContinue(i) ==
    HasParam(i, "onerror") /\ TagAt(i).parameters["onerror"] = "continue"

C14_PrimaryErrorReturned ==
    round = 0 =>
        \A i \in IncludeIndices :
            (AllFailed(CallsFor(i)) /\ ~SaysContinue(i)) =>
                result = [status |-> "Err", output |-> << >>,
                          error |-> [kind |-> "Client",
                                     a |-> << TagAt(i).parameters["src"] >>,
                                     b |-> << >>]]

(* both requests of an include with an alt have failed *)
C14_Witness ==
    /\ round = 0
    /\ \E i \in IncludeIndices :
        /\ Len(CallsFor(i)) = 2
        /\ AllFailed(CallsFor(i))
        /\ CallsFor(i)[2].url # TagAt(i).parameters["src"]
        /\ result.status = "Err"

-----------------------------------------------------------------------------
(* C15: the requests made for one include are the src request, then at      *)
(* most the alt request, and the alt request is made only when the tag has  *)
(* an alt and the src request failed: at most two requests, and one when    *)
(* the src request succeeded.                                               *)

C15_FallbackOnlyAfterFailure ==
    round = 0 =>
        /\ \A k \in 1..Len(calls) : calls[k].index \in IncludeIndices
        /\ \A i \in IncludeIndices :
            LET cs == CallsFor(i)
            IN  /\ Len(cs) <= 2
                /\ cs # << >> => cs[1].url = TagAt(i).parameters["src"]
                /\ Len(cs) = 2 =>
                       /\ ~cs[1].ok
                       /\ HasParam(i, "alt")
                       /\ cs[2].url = TagAt(i).parameters["alt"]

(* the src request of an include that has an alt succeeded *)
C15_Witness ==
    /\ round = 0
    /\ \E i \in IncludeIndices :
        /\ HasParam(i, "alt")
        /\ CallsFor(i) # << >>
        /\ CallsFor(i)[1].ok

-----------------------------------------------------------------------------
(* C16: requests are made in the order of the entries; and once an include  *)
(* has failed fatally (src missing, or every request failed without         *)
(* onerror="continue"), no request is made for a later include, the call    *)
(* has returned Err from the executor, and no map and no output is handed   *)
(* on.                                                                      *)

FatalAt(i) ==
    \/ /\ ~HasParam(i, "src")
       /\ pc = "execute" /\ index = i /\ Ended
    \/ /\ HasParam(i, "src")
       /\ AllFailed(CallsFor(i))
       /\ ~SaysContinue(i)

C16_DocumentOrderThenAbort ==
    round = 0 =>
        /\ \A k, l \in 1..Len(calls) :
               k < l => calls[k].index <= calls[l].index
        /\ \A i \in IncludeIndices :
               FatalAt(i) =>
                   /\ \A k \in 1..Len(calls) : calls[k].index <= i
                   /\ result.status = "Err"
                   /\ result.output = << >>
                   /\ pc = "execute" /\ index = i
                   /\ out = << >>

(* a fetch failed fatally and an include with a src comes after it *)
C16_Witness ==
    /\ round = 0
    /\ \E i, j \in IncludeIndices :
        /\ i < j
        /\ HasParam(i, "src") /\ FatalAt(i)
        /\ HasParam(j, "src")
        /\ CallsFor(j) = << >>

-----------------------------------------------------------------------------
(* C17 *)

(* a tag of the esi: namespace that is neither include nor remove *)
IsUnsupportedEsiTag(item) ==
    /\ item.kind \in { "Start", "End", "Empty" }
    /\ StartsWith(item.name, << "esi:" >>)
    /\ item.name # << "esi:", "include" >>
    /\ item.name # << "esi:", "remove" >>

(* read_event has just returned item while no remove block was open *)
ReadOutsideRemove(item) ==
    /\ pc = "parse" /\ Running /\ ~remove
    /\ pos' = pos + 1
    /\ body'[pos'] = item

AsPassthrough(item) == [event |-> << item >>, esi_tag |-> << >>]

(* a call that returned Ok wrote every passthrough entry as it was, at the  *)
(* entry's place, and wrote nothing for an entry of an unsupported          *)
(* self-closing tag                                                         *)
OutputKeepsPassthrough ==
    result.status = "Ok" =>
        \A j \in 0..(Len(events) - 1) :
            IF IsSome(events[j + 1].event)
            THEN /\ OutputPosition(j) <= Len(result.output)
                 /\ result.output[OutputPosition(j)] = Unwrap(events[j + 1].event)
            ELSE ~IncludeAt(j) => ~Writes(j)

-----------------------------------------------------------------------------
(* C18: the output of a call that returned Ok is the entry list written in  *)
(* order: a passthrough entry as its event, an instruction entry whose      *)
(* index is a key of the map as one text event holding the mapped content,  *)
(* an instruction entry with no key in the map as nothing.                  *)

RECURSIVE SerializedUpTo(_)
SerializedUpTo(n) ==
    IF n = 0 THEN << >>
    ELSE LET entry == events[n]
         IN  SerializedUpTo(n - 1) \o
                 (IF entry.event # << >>
                  THEN entry.event
                  ELSE IF (n - 1) \in DOMAIN map
                       THEN << [kind |-> "Text", name |-> << >>,
                                attrs |-> << >>, text |-> map[n - 1]] >>
                       ELSE << >>)

C18_OutputIsSerializedEntries ==
    result.status = "Ok" =>
        /\ pc = "assemble"
        /\ result.output = SerializedUpTo(Len(events))

(* a call returned Ok for a document with an instruction entry that has no *)
(* content in the map standing between two passthrough entries              *)
C18_Witness ==
    /\ round = 0
    /\ result.status = "Ok"
    /\ Len(events) = 3
    /\ events[1].event # << >>
    /\ events[2].event = << >> /\ 1 \notin DOMAIN map
    /\ events[3].event # << >>
    /\ events[1] # events[3]
    /\ result.output = events[1].event \o events[3].event

-----------------------------------------------------------------------------
(* C19 (as claimed; here for a request URL that names a host): a call of    *)
(* FastlyRequestHandler::send_request returns a Response or an error        *)
(* value: a Response it returns has a status code in 200..=299, a backend   *)
(* status outside 200..=299 gives Err(ExecutionError::Unknown), and a       *)
(* failure to send the request gives an error value.                        *)

C19_ResponseOrErrorValue ==
    (IsSome(fastly.ret) /\ fastly.url = "http://host/a") =>
        LET ret == Unwrap(fastly.ret)
        IN  /\ ret.kind \in { "Ok", "Err" }
            /\ ret.kind = "Ok" => ret.status_code \in 200..299
            /\ (fastly.sendOk /\ fastly.status \notin 200..299) =>
                   ret = [kind |-> "Err", status_code |-> 0, body |-> << >>,
                          error |-> [kind |-> "Unknown", a |-> << >>,
                                     b |-> << >>]]
            /\ ~fastly.sendOk => ret.kind = "Err"

-----------------------------------------------------------------------------
(* C20: a self-closing esi:include read while a remove block is open        *)
(* changes nothing but the reader's position: no entry, no error, no        *)
(* request, the block stays open; no entry at all is made while a remove    *)
(* block is open; and every request made is for the src or the alt of an    *)
(* include entry.                                                           *)

RequestsComeFromEntries ==
    round = 0 =>
        \A k \in 1..Len(calls) :
            /\ calls[k].index \in IncludeIndices
            /\ \E key \in { "src", "alt" } :
                /\ HasParam(calls[k].index, key)
                /\ calls[k].url = TagAt(calls[k].index).parameters[key]

C20_IncludeInRemoveBlockIgnored ==
    [][ /\ (/\ pc = "parse" /\ Running /\ remove
            /\ pos' = pos + 1
            /\ body'[pos'].kind = "Empty"
            /\ body'[pos'].name = << "esi:", "include" >>) =>
               /\ events' = events
               /\ result' = result
               /\ calls' = calls
               /\ pc' = pc
               /\ remove'
        /\ (pc = "parse" /\ remove) => events' = events
        /\ RequestsComeFromEntries'
      ]_vars

(* a call returned Ok for a document whose only include, one without a     *)
(* src, stood in a remove block                                             *)
C20_Witness ==
    /\ round = 0
    /\ result.status = "Ok"
    /\ \E k \in 1..Len(body) :
        /\ body[k].kind = "Empty"
        /\ body[k].name = << "esi:", "include" >>
        /\ body[k].attrs = << >>
    /\ IncludeIndices = {}
    /\ calls = << >>

=============================================================================
